---- MODULE Spec2Model ----
(***************************************************************************)
(* A model of nodes.py of ComfyUI-DynamiCrafterWrapper: the three nodes    *)
(* DynamiCrafterModelLoader, DynamiCrafterI2V and                          *)
(* DynamiCrafterBatchInterpolation.  Tensors are modelled by what the      *)
(* nodes do with them: an image by its source and its height and width, a  *)
(* latent by the image it encodes, a video by the list of its frames.      *)
(* Strings are sequences of characters (prompts) or of path tokens         *)
(* (checkpoint names).                                                     *)
(***************************************************************************)
EXTENDS Integers, Sequences, FiniteSets, TLC

VARIABLES
    ld_model,           \* DynamiCrafterModelLoader.model (NoModel: attribute unset)
    ld_current_config,  \* DynamiCrafterModelLoader.current_config
    ld_result,          \* outcome of the last loadmodel call
    installed,          \* folder_paths.get_filename_list("checkpoints")
    dev,                \* device of the diffusion model and of the four sub-models
    model_dtype,        \* model.dtype
    vae_dtype_cur,      \* model.first_stage_model.dtype
    rng_seed,           \* torch's global seed
    host_loaded,        \* the host has other models loaded (mm.unload_all_models)
    node,               \* the node whose process is running
    pc,                 \* position inside process
    inp,                \* the arguments of the running process call
    run,                \* the locals of the running process call
    last_end            \* how the process call before this one ended

loader_vars == <<ld_model, ld_current_config, ld_result, installed>>
model_vars == <<dev, model_dtype, vae_dtype_cur, rng_seed, host_loaded>>
proc_vars == <<node, pc, inp, run, last_end>>
vars == <<ld_model, ld_current_config, ld_result, installed,
          dev, model_dtype, vae_dtype_cur, rng_seed, host_loaded,
          node, pc, inp, run, last_end>>

(***************************************************************************)
(* Bounds of the model.                                                    *)
(***************************************************************************)
MaxNameLen == 2
MaxCkpts == 2
MaxDim == 129
MaxImages == 4
MaxFrames == 6
MaxPromptLen == 3
MaxSeed == 1

Min(S) == CHOOSE x \in S : \A y \in S : x <= y
Max(S) == CHOOSE x \in S : \A y \in S : x >= y

SeqsUpTo(S, n) == UNION {[1..k -> S] : k \in 0..n}

DTypeNames == {"fp32", "fp16", "bf16", "auto"}

\* convert_dtype: the torch dtype of a dtype string; "auto" has none.
convert_dtype(dtype_str) ==
    CASE dtype_str = "fp32" -> "float32"
      [] dtype_str = "fp16" -> "float16"
      [] dtype_str = "bf16" -> "bfloat16"
      [] OTHER -> "NotImplementedError"

(***************************************************************************)
(* DynamiCrafterModelLoader                                                *)
(***************************************************************************)
\* A checkpoint name is a sequence of these tokens; "/" and "." are the path
\* separator and the dot, the others are pieces of a file name.  No piece
\* occurs inside a concatenation of other pieces, so x in base_name is
\* membership of the token.
NameTokens == {"interp", "1024", "512", "256", "/", "."}
CkptNames == SeqsUpTo(NameTokens, MaxNameLen) \ {<<>>}

\* The lists of installed checkpoints: at most n names.
RECURSIVE InstalledSets(_)
InstalledSets(n) ==
    IF n <= 1 THEN {{a} : a \in CkptNames}
    ELSE LET smaller == InstalledSets(n - 1)
         IN  smaller \cup UNION {{S \cup {a} : a \in CkptNames} : S \in smaller}

NoModel == [config |-> "none", ckpt |-> <<>>, dtype |-> "none"]
NoConfig == [dtype |-> "none", ckpt_name |-> <<>>]
NoResult == [kind |-> "none", ckpt_name |-> <<>>, model |-> NoModel]

Positions(s, t) == {p \in 1..Len(s) : s[p] = t}

\* os.path.basename: what follows the last separator.
basename(p) ==
    LET seps == Positions(p, "/")
        i == IF seps = {} THEN 0 ELSE Max(seps)
    IN  SubSeq(p, i + 1, Len(p))

\* os.path.splitext, the root: cut at the last dot of the last component,
\* unless only dots precede it in that component.
splitext_root(p) ==
    LET seps == Positions(p, "/")
        dots == Positions(p, ".")
        sepIndex == IF seps = {} THEN 0 ELSE Max(seps)
        dotIndex == IF dots = {} THEN 0 ELSE Max(dots)
    IN  IF dotIndex > sepIndex
           /\ \E q \in (sepIndex + 1)..(dotIndex - 1) : p[q] # "."
        THEN SubSeq(p, 1, dotIndex - 1)
        ELSE p

Contains(base_name, t) == \E q \in 1..Len(base_name) : base_name[q] = t

\* The if/elif chain of loadmodel; "none": config_file stays unbound.
ConfigFor(base_name) ==
    IF Contains(base_name, "interp") /\ Contains(base_name, "512")
    THEN "dynamicrafter_512_interp_v1.yaml"
    ELSE IF Contains(base_name, "1024") THEN "dynamicrafter_1024_v1.yaml"
    ELSE IF Contains(base_name, "512") THEN "dynamicrafter_512_v1.yaml"
    ELSE IF Contains(base_name, "256") THEN "dynamicrafter_256_v1.yaml"
    ELSE "none"

BaseName(ckpt_name) == splitext_root(basename(ckpt_name))

\* The dtypes model.to() can leave the model in for a dtype argument: for
\* "auto", what mm.should_use_fp16 / should_use_bf16 decide.
LoaderDTypes(dtype) ==
    IF dtype = "auto" THEN {"float16", "bfloat16", "float32"}
    ELSE {convert_dtype(dtype)}

NeedsLoad(custom_config) ==
    ld_model = NoModel \/ custom_config # ld_current_config

\* loadmodel, the branch that loads: a config matches.
LoadModelFresh ==
    \E dtype \in DTypeNames, ckpt_name \in installed :
        LET custom_config == [dtype |-> dtype, ckpt_name |-> ckpt_name]
            config_file == ConfigFor(BaseName(ckpt_name))
        IN  /\ NeedsLoad(custom_config)
            /\ config_file # "none"
            /\ \E d \in LoaderDTypes(dtype) :
                 /\ ld_model' = [config |-> config_file, ckpt |-> ckpt_name, dtype |-> d]
                 /\ ld_result' = [kind |-> "returned", ckpt_name |-> ckpt_name,
                                  model |-> ld_model']
            /\ ld_current_config' = custom_config
            /\ UNCHANGED <<installed, model_vars, proc_vars>>

\* loadmodel, the branch that loads: no config matches, OmegaConf.load
\* reads the unbound config_file and the call raises.
LoadModelNoConfig ==
    \E dtype \in DTypeNames, ckpt_name \in installed :
        LET custom_config == [dtype |-> dtype, ckpt_name |-> ckpt_name]
        IN  /\ NeedsLoad(custom_config)
            /\ ConfigFor(BaseName(ckpt_name)) = "none"
            /\ ld_current_config' = custom_config
            /\ ld_result' = [kind |-> "raised", ckpt_name |-> ckpt_name, model |-> NoModel]
            /\ UNCHANGED <<ld_model, installed, model_vars, proc_vars>>

\* loadmodel with the model of the same config already there.
LoadModelCached ==
    \E dtype \in DTypeNames, ckpt_name \in installed :
        LET custom_config == [dtype |-> dtype, ckpt_name |-> ckpt_name]
        IN  /\ ~NeedsLoad(custom_config)
            /\ ld_result' = [kind |-> "returned", ckpt_name |-> ckpt_name, model |-> ld_model]
            /\ UNCHANGED <<ld_model, ld_current_config, installed, model_vars, proc_vars>>

(***************************************************************************)
(* Tensors, sizes and strings of the two process nodes                     *)
(***************************************************************************)
ComputeDevice == "cuda"
AllOn(d) == [unet |-> d, first_stage |-> d, cond_stage |-> d, embedder |-> d,
             image_proj |-> d]

SizeMultiple == 64
LatentFactor == 8
UniformLatentW == 32
MaxCut == 5

\* Heights and widths tried: around the multiples of 64, and the width whose
\* latent is 32 wide.
DimSet == {d \in 1..MaxDim : d % SizeMultiple \in {0, 1, 2, 63}}
              \cup {UniformLatentW * LatentFactor}

\* An image: which input it shows (its index among the inputs, -1: none) and
\* its height and width.
Image(src, h, w) == [src |-> src, h |-> h, w |-> w]
NoImage == Image(-1, 0, 0)

RoundUp64(x) == IF x % SizeMultiple # 0 THEN x + (SizeMultiple - (x % SizeMultiple)) ELSE x

\* W = W - (W % 64) when W % 64 != 0.
RoundDown64(x) == IF x % SizeMultiple # 0 THEN x - (x % SizeMultiple) ELSE x

\* The condition under which the input is passed to F.interpolate.
NeedsResize(orig_H, orig_W) == orig_H % SizeMultiple # 0 \/ orig_W % SizeMultiple # 0

\* F.interpolate(x, size=(H, W)): raises unless both output sizes are positive.
InterpolateOk(H, W) == H > 0 /\ W > 0
interpolate(img, H, W) == Image(img.src, H, W)

\* get_latent_z: the VAE encoding of an image, 8 times smaller.
get_latent_z(img) == [of |-> img.src, h |-> img.h \div LatentFactor,
                      w |-> img.w \div LatentFactor]
zeros_like(z) == [of |-> -1, h |-> z.h, w |-> z.w]

\* repeat(z, 'b c t h w -> b c (repeat t) h w', repeat=frames)
RepeatFrames(z, frames) == [t \in 1..frames |-> z]

CondFrames_swapped(z, z2, frames) ==
    [t \in 1..frames |-> IF t = frames THEN z ELSE IF t = 1 THEN z2 ELSE zeros_like(z)]

\* zeros_like, then [:, :, :1] = z, then [:, :, -1:] = z2.
CondFrames(z, z2, frames) ==
    LET zeros == [t \in 1..frames |-> zeros_like(z)]
        first == [t \in 1..frames |-> IF t <= 1 THEN z ELSE zeros[t]]
    IN  [t \in 1..frames |-> IF t >= frames THEN z2 ELSE first[t]]

NoiseShape(frames, H, W) ==
    [frames |-> frames, h |-> H \div LatentFactor, w |-> W \div LatentFactor]

TimestepSpacing(noise_shape) ==
    IF noise_shape.w = UniformLatentW THEN "uniform" ELSE "uniform_trailing"

\* decode_first_stage and the permute: frames of segment seg, 8 times the latent.
DecodedFrames(seg, noise_shape) == [t \in 1..noise_shape.frames |-> <<seg, t - 1>>]

FinalSize_orig(x) == x

\* final_H = (orig_H // 2) * 2
FinalSize(x) == (x \div 2) * 2

\* A prompt is a sequence of these characters.
PromptChars == {"a", " ", "|"}
Whitespace == {" "}
Prompts == SeqsUpTo(PromptChars, MaxPromptLen)

RECURSIVE strip(_)
\* str.strip()
strip(s) ==
    IF s = <<>> THEN s
    ELSE IF Head(s) \in Whitespace THEN strip(Tail(s))
    ELSE IF s[Len(s)] \in Whitespace THEN strip(SubSeq(s, 1, Len(s) - 1))
    ELSE s

RECURSIVE split(_)
\* str.split('|')
split(s) ==
    LET bars == Positions(s, "|")
    IN  IF bars = {} THEN <<s>>
        ELSE <<SubSeq(s, 1, Min(bars) - 1)>> \o split(SubSeq(s, Min(bars) + 1, Len(s)))

split_and_trim(input_string) ==
    LET array == split(input_string)
    IN  [k \in 1..Len(array) |-> strip(array[k])]

PromptPiece_last(split_prompt, i) ==
    IF i < Len(split_prompt) THEN split_prompt[i + 1] ELSE split_prompt[Len(split_prompt)]

\* try: split_prompt[i]  except: split_prompt[0]
PromptPiece(split_prompt, i) ==
    IF i < Len(split_prompt) THEN split_prompt[i + 1] ELSE split_prompt[1]

\* Python's out_video[:start] and out_video[end:] joined.
SliceIndex(k, n) == IF k < 0 THEN (IF k + n < 0 THEN 0 ELSE k + n) ELSE (IF k > n THEN n ELSE k)
CutSlice(video, start_index, end_index) ==
    LET n == Len(video)
    IN  SubSeq(video, 1, SliceIndex(start_index, n))
            \o SubSeq(video, SliceIndex(end_index, n) + 1, n)

RECURSIVE TrimLoop(_, _, _, _, _, _)
\* for i in range(len(images) - 2): the body of the trimming loop from i on.
TrimLoop(out_video, i, n_images, frames, cut_near_keyframes, already_deleted) ==
    IF i >= n_images - 2 THEN out_video
    ELSE LET old_size == Len(out_video)
             keyframe_index == (i + 1) * frames - already_deleted
             start_index == keyframe_index - (cut_near_keyframes \div 2)
             end_index == start_index + cut_near_keyframes
             cut == CutSlice(out_video, start_index, end_index)
         IN  TrimLoop(cut, i + 1, n_images, frames, cut_near_keyframes,
                      already_deleted + (old_size - Len(cut)))

TrimKeyframes_noTrim(out_video, n_images, frames, cut_near_keyframes) == out_video

\* if cut_near_keyframes > 0: the trimming loop.
TrimKeyframes(out_video, n_images, frames, cut_near_keyframes) ==
    IF cut_near_keyframes > 0
    THEN TrimLoop(out_video, 0, n_images, frames, cut_near_keyframes, 0)
    ELSE out_video

RECURSIVE Cat(_)
\* torch.cat(out, dim=0)
Cat(out) == IF out = <<>> THEN <<>> ELSE Head(out) \o Cat(Tail(out))

\* The VAE dtypes a vae_dtype argument can give: for "auto", bf16 or fp32
\* as mm.should_use_bf16 decides.
VaeDTypes(vae_dtype) ==
    IF vae_dtype = "auto" THEN {"bfloat16", "float32"} ELSE {convert_dtype(vae_dtype)}

NoInput == [node |-> "none"]
NoRun == [orig_H |-> 0, orig_W |-> 0, H |-> 0, W |-> 0, resized |-> FALSE,
          images |-> <<>>, image2 |-> NoImage, split_prompt |-> <<>>, i |-> 0,
          noise_shape |-> NoiseShape(0, 0, 0), concat |-> <<>>, text |-> <<>>,
          embedded |-> "none", uc |-> FALSE, x0 |-> FALSE, spacing |-> "none",
          segs |-> <<>>, out |-> <<>>, video |-> <<>>, vidH |-> 0, vidW |-> 0,
          error |-> "none"]



Idle == pc = "idle"

\* The call ends, by its return or by the exception it raised: the host has
\* the node again and the locals of the call are gone.
Return ==
    /\ pc \in {"done", "failed"}
    /\ pc' = "idle"
    /\ node' = "none"
    /\ inp' = NoInput
    /\ run' = NoRun
    /\ UNCHANGED <<loader_vars, model_vars, last_end>>

\* The same, with how the call ended remembered.
ReturnTracked ==
    /\ pc \in {"done", "failed"}
    /\ pc' = "idle"
    /\ node' = "none"
    /\ inp' = NoInput
    /\ run' = NoRun
    /\ last_end' = IF pc = "failed" THEN "failed"
                   ELSE IF inp.keep_model_loaded THEN "kept" ELSE "released"
    /\ UNCHANGED <<loader_vars, model_vars>>

ModelToDevice_skip(d) == d

\* self.model.to(device): the model and every sub-model.
ModelToDevice(d) == AllOn(ComputeDevice)

\* The host loads other models between two runs.
HostLoads ==
    /\ Idle
    /\ ~host_loaded
    /\ host_loaded' = TRUE
    /\ UNCHANGED <<loader_vars, dev, model_dtype, vae_dtype_cur, rng_seed, proc_vars>>

(***************************************************************************)
(* DynamiCrafterI2V.process                                                *)
(***************************************************************************)
\* From the call to the first get_latent_z: unload, seed, VAE dtype,
\* model.to(device), the resize to the working size, noise_shape.
I2VStart(Inputs) ==
  /\ Idle
  /\ \E a \in Inputs :
      \E vd \in VaeDTypes(a.vae_dtype) :
        LET H == RoundDown64(a.orig_H)
            W == RoundDown64(a.orig_W)
            resize == NeedsResize(a.orig_H, a.orig_W)
            image == Image(0, a.orig_H, a.orig_W)
        IN  /\ a.node = "i2v"
            /\ host_loaded' = FALSE
            /\ rng_seed' = a.seed
            /\ vae_dtype_cur' = vd
            /\ dev' = ModelToDevice(dev)
            /\ node' = "i2v"
            /\ inp' = a
            /\ IF resize /\ ~InterpolateOk(H, W)
               THEN /\ pc' = "failed"
                    /\ run' = [NoRun EXCEPT !.orig_H = a.orig_H, !.orig_W = a.orig_W,
                                            !.error = "interpolate"]
               ELSE /\ pc' = "encode"
                    /\ run' = [NoRun EXCEPT
                                 !.orig_H = a.orig_H, !.orig_W = a.orig_W,
                                 !.H = H, !.W = W, !.resized = resize,
                                 !.images = <<IF resize THEN interpolate(image, H, W)
                                              ELSE image>>,
                                 !.noise_shape = NoiseShape(a.frames, H, W)]
            /\ UNCHANGED <<loader_vars, model_dtype, last_end>>

\* get_latent_z of image and of image2, the concat conditioning, the VAE
\* back to the CPU and the three embedding models to the device.
I2VEncode ==
    /\ pc = "encode"
    /\ node = "i2v"
    /\ LET image == run.images[1]
           z == get_latent_z(image)
           image2 == IF <<inp.image2.h, inp.image2.w>> # <<image.h, image.w>>
                     THEN interpolate(image, run.H, run.W)
                     ELSE inp.image2
           z2 == get_latent_z(image2)
       IN  run' = [run EXCEPT
                     !.image2 = IF inp.image2 # NoImage THEN image2 ELSE NoImage,
                     !.concat = IF inp.image2 # NoImage
                                THEN CondFrames(z, z2, inp.frames)
                                ELSE RepeatFrames(z, inp.frames)]
    /\ dev' = [dev EXCEPT !.first_stage = "cpu", !.cond_stage = ComputeDevice,
                          !.embedder = ComputeDevice, !.image_proj = ComputeDevice]
    /\ pc' = "embed"
    /\ UNCHANGED <<loader_vars, model_dtype, vae_dtype_cur, rng_seed, host_loaded, node, inp,
                   last_end>>

\* The text and image embeddings, the unconditional guidance, the three
\* embedding models back to the CPU, the mask.
I2VEmbed ==
    /\ pc = "embed"
    /\ node = "i2v"
    /\ run' = [run EXCEPT
                 !.text = inp.prompt,
                 !.embedded = run.images[1].src,
                 !.uc = ~inp.cfg_is_one,
                 !.x0 = inp.mask,
                 !.spacing = TimestepSpacing(run.noise_shape),
                 !.segs = Append(run.segs, [i |-> 0, concat |-> run.concat,
                                            text |-> inp.prompt])]
    /\ dev' = [dev EXCEPT !.cond_stage = "cpu", !.embedder = "cpu", !.image_proj = "cpu"]
    /\ pc' = "sample"
    /\ UNCHANGED <<loader_vars, model_dtype, vae_dtype_cur, rng_seed, host_loaded, node, inp,
                   last_end>>

\* ddim_sampler.sample and the NaN assertion; then the VAE to the device.
I2VSample ==
    /\ pc = "sample"
    /\ node = "i2v"
    /\ \E nan \in BOOLEAN :
         IF nan
         THEN /\ pc' = "failed"
              /\ run' = [run EXCEPT !.error = "nan"]
              /\ UNCHANGED dev
         ELSE /\ pc' = "decode"
              /\ dev' = [dev EXCEPT !.first_stage = ComputeDevice]
              /\ UNCHANGED run
    /\ UNCHANGED <<loader_vars, model_dtype, vae_dtype_cur, rng_seed, host_loaded, node, inp,
                   last_end>>

\* decode_first_stage, the VAE back to the CPU, keep_model_loaded, the
\* resize to the final size, the return.
I2VDecode ==
    /\ pc = "decode"
    /\ node = "i2v"
    /\ LET video == DecodedFrames(0, run.noise_shape)
           decH == run.noise_shape.h * LatentFactor
           decW == run.noise_shape.w * LatentFactor
           final_H == FinalSize(run.orig_H)
           final_W == FinalSize(run.orig_W)
           resize == decH # final_H \/ decW # final_W
       IN  run' = [run EXCEPT !.out = <<video>>, !.video = video,
                              !.vidH = IF resize THEN final_H ELSE decH,
                              !.vidW = IF resize THEN final_W ELSE decW]
    /\ dev' = IF inp.keep_model_loaded THEN [dev EXCEPT !.first_stage = "cpu"]
              ELSE AllOn("cpu")
    /\ pc' = "done"
    /\ UNCHANGED <<loader_vars, model_dtype, vae_dtype_cur, rng_seed, host_loaded, node, inp,
                   last_end>>

(***************************************************************************)
(* DynamiCrafterBatchInterpolation.process                                 *)
(***************************************************************************)
BatchAssertFails_afterSetup(Inputs) ==
  /\ Idle
  /\ \E a \in Inputs :
        /\ a.node = "batch"
        /\ ~(a.n_images > 1)
        /\ node' = "batch"
        /\ inp' = a
        /\ pc' = "failed"
        /\ run' = [NoRun EXCEPT !.error = "needs at least 2 images"]
        /\ host_loaded' = FALSE
        /\ rng_seed' = a.seed
        /\ UNCHANGED <<loader_vars, dev, model_dtype, vae_dtype_cur, last_end>>

\* assert images.shape[0] > 1, the first statement of process.
BatchAssertFails(Inputs) ==
  /\ Idle
  /\ \E a \in Inputs :
        /\ a.node = "batch"
        /\ ~(a.n_images > 1)
        /\ node' = "batch"
        /\ inp' = a
        /\ pc' = "failed"
        /\ run' = [NoRun EXCEPT !.error = "needs at least 2 images"]
        /\ UNCHANGED <<loader_vars, model_vars, last_end>>

\* From the call to the first get_latent_z of segment 0: unload, seed, VAE
\* dtype, model.to(device), the resize of the batch, split_and_trim.
BatchStart(Inputs) ==
  /\ Idle
  /\ \E a \in Inputs :
      \E vd \in VaeDTypes(a.vae_dtype) :
        LET H == RoundDown64(a.orig_H)
            W == RoundDown64(a.orig_W)
            resize == NeedsResize(a.orig_H, a.orig_W)
            images == [k \in 1..a.n_images |-> Image(k - 1, a.orig_H, a.orig_W)]
        IN  /\ a.node = "batch"
            /\ a.n_images > 1
            /\ host_loaded' = FALSE
            /\ rng_seed' = a.seed
            /\ vae_dtype_cur' = vd
            /\ dev' = ModelToDevice(dev)
            /\ node' = "batch"
            /\ inp' = a
            /\ IF resize /\ ~InterpolateOk(H, W)
               THEN /\ pc' = "failed"
                    /\ run' = [NoRun EXCEPT !.orig_H = a.orig_H, !.orig_W = a.orig_W,
                                            !.error = "interpolate"]
               ELSE /\ pc' = "encode"
                    /\ run' = [NoRun EXCEPT
                                 !.orig_H = a.orig_H, !.orig_W = a.orig_W,
                                 !.H = H, !.W = W, !.resized = resize,
                                 !.images = [k \in 1..a.n_images |->
                                               IF resize THEN interpolate(images[k], H, W)
                                               ELSE images[k]],
                                 !.split_prompt = split_and_trim(a.prompt),
                                 !.i = 0,
                                 !.noise_shape = NoiseShape(a.frames, H, W)]
            /\ UNCHANGED <<loader_vars, model_dtype, last_end>>

\* Segment i: get_latent_z of images[i] and images[i+1], the concat
\* conditioning, the VAE back to the CPU, the embedding models to the device.
BatchEncode ==
    /\ pc = "encode"
    /\ node = "batch"
    /\ LET image == run.images[run.i + 1]
           image2 == run.images[run.i + 2]
           z == get_latent_z(image)
           z2 == get_latent_z(image2)
       IN  run' = [run EXCEPT !.image2 = image2,
                              !.concat = CondFrames(z, z2, inp.frames)]
    /\ dev' = [dev EXCEPT !.first_stage = "cpu", !.cond_stage = ComputeDevice,
                          !.embedder = ComputeDevice, !.image_proj = ComputeDevice]
    /\ pc' = "embed"
    /\ UNCHANGED <<loader_vars, model_dtype, vae_dtype_cur, rng_seed, host_loaded, node, inp,
                   last_end>>

\* Segment i: the text embedding of its prompt piece, the image embedding,
\* the unconditional guidance, the embedding models back to the CPU.
BatchEmbed ==
    /\ pc = "embed"
    /\ node = "batch"
    /\ LET text == PromptPiece(run.split_prompt, run.i)
       IN  run' = [run EXCEPT
                     !.text = text,
                     !.embedded = run.images[run.i + 1].src,
                     !.uc = ~inp.cfg_is_one,
                     !.spacing = TimestepSpacing(run.noise_shape),
                     !.segs = Append(run.segs, [i |-> run.i, concat |-> run.concat,
                                                text |-> text])]
    /\ dev' = [dev EXCEPT !.cond_stage = "cpu", !.embedder = "cpu", !.image_proj = "cpu"]
    /\ pc' = "sample"
    /\ UNCHANGED <<loader_vars, model_dtype, vae_dtype_cur, rng_seed, host_loaded, node, inp,
                   last_end>>

\* Segment i: ddim_sampler.sample and the NaN assertion; then the VAE to
\* the device.
BatchSample ==
    /\ pc = "sample"
    /\ node = "batch"
    /\ \E nan \in BOOLEAN :
         IF nan
         THEN /\ pc' = "failed"
              /\ run' = [run EXCEPT !.error = "nan"]
              /\ UNCHANGED dev
         ELSE /\ pc' = "decode"
              /\ dev' = [dev EXCEPT !.first_stage = ComputeDevice]
              /\ UNCHANGED run
    /\ UNCHANGED <<loader_vars, model_dtype, vae_dtype_cur, rng_seed, host_loaded, node, inp,
                   last_end>>

\* Segment i: decode_first_stage, the VAE back to the CPU, out.append; then
\* either the head of segment i+1, or, after the last segment,
\* keep_model_loaded, torch.cat, the resize to the final size, the trimming
\* and the return.
BatchDecode ==
    /\ pc = "decode"
    /\ node = "batch"
    /\ LET video == DecodedFrames(run.i, run.noise_shape)
           out == Append(run.out, video)
           decH == run.noise_shape.h * LatentFactor
           decW == run.noise_shape.w * LatentFactor
           final_H == FinalSize(run.orig_H)
           final_W == FinalSize(run.orig_W)
           resize == decH # final_H \/ decW # final_W
       IN  IF run.i + 1 < Len(run.images) - 1
           THEN /\ run' = [run EXCEPT !.out = out, !.i = run.i + 1,
                                      !.noise_shape = NoiseShape(inp.frames, run.H, run.W)]
                /\ dev' = [dev EXCEPT !.first_stage = ComputeDevice]
                /\ pc' = "encode"
           ELSE /\ run' = [run EXCEPT
                             !.out = out,
                             !.video = TrimKeyframes(Cat(out), Len(run.images), inp.frames,
                                                     inp.cut_near_keyframes),
                             !.vidH = IF resize THEN final_H ELSE decH,
                             !.vidW = IF resize THEN final_W ELSE decW]
                /\ dev' = IF inp.keep_model_loaded THEN [dev EXCEPT !.first_stage = "cpu"]
                          ELSE AllOn("cpu")
                /\ pc' = "done"
    /\ UNCHANGED <<loader_vars, model_dtype, vae_dtype_cur, rng_seed, host_loaded, node, inp,
                   last_end>>

(***************************************************************************)
(* The arguments the nodes are called with                                 *)
(***************************************************************************)
Input(nd, n, h, w, image2, frames, prompt, seed, keep, vae_dtype, cfg1, mask, cut) ==
    [node |-> nd, n_images |-> n, orig_H |-> h, orig_W |-> w, image2 |-> image2,
     frames |-> frames, prompt |-> prompt, seed |-> seed, keep_model_loaded |-> keep,
     vae_dtype |-> vae_dtype, cfg_is_one |-> cfg1, mask |-> mask,
     cut_near_keyframes |-> cut]

MaxCondFrames == 3

\* The second images tried with an image of h by w: none, one of the same
\* size, one of the working size, and two of fixed sizes.
Image2Choices(h, w) ==
    {NoImage, Image(1, h, w), Image(1, RoundDown64(h), RoundDown64(w)),
     Image(1, SizeMultiple, SizeMultiple), Image(1, 2 * SizeMultiple, 2 * SizeMultiple)}

\* Calls that vary the image sizes.
SizeInputs ==
    UNION {
      {Input("i2v", 1, h, w, i2, f, <<"a">>, 0, TRUE, "fp32", FALSE, m, 0) :
          i2 \in Image2Choices(h, w), f \in 1..MaxCondFrames, m \in BOOLEAN}
      \cup
      {Input("batch", 2, h, w, NoImage, f, <<"a">>, 0, TRUE, "fp32", FALSE, FALSE, c) :
          f \in 1..2, c \in 0..1}
      : h \in DimSet, w \in DimSet}

\* Calls that vary the number of images, the frames per segment and the cut.
SeqInputs ==
    {Input("batch", n, hw, hw, NoImage, f, <<"a", "|", " ">>, sd, k, vd, FALSE, FALSE, c) :
        n \in 0..MaxImages, hw \in {SizeMultiple, SizeMultiple + 1},
        f \in 1..MaxFrames, sd \in 0..MaxSeed, k \in BOOLEAN, vd \in {"auto", "fp16"},
        c \in 0..MaxCut}

\* Calls that vary the prompt.
PromptInputs ==
    {Input("batch", n, SizeMultiple, SizeMultiple, NoImage, 2, p, 0, TRUE, "fp32",
           FALSE, FALSE, 0) :
        n \in 2..MaxImages, p \in Prompts}

\* Calls that vary what decides where the sub-models are.
DeviceInputs ==
    {Input("i2v", 1, hw, hw, IF two THEN Image(1, hw, hw) ELSE NoImage, 2, <<"a">>,
           0, k, vd, c1, m, 0) :
        hw \in {SizeMultiple - 1, SizeMultiple}, two \in BOOLEAN,
        k \in BOOLEAN, vd \in DTypeNames, c1 \in BOOLEAN, m \in BOOLEAN}
    \cup
    {Input("batch", n, hw, hw, NoImage, 2, <<"a">>, 0, k, vd, c1, FALSE, c) :
        n \in 1..3, hw \in {SizeMultiple - 1, SizeMultiple},
        k \in BOOLEAN, vd \in DTypeNames, c1 \in BOOLEAN, c \in 0..1}

\* A model as loadmodel returns it: on the CPU, in one dtype throughout.
InitModel ==
    /\ ld_model = NoModel
    /\ ld_current_config = NoConfig
    /\ ld_result = NoResult
    /\ installed = {}
    /\ dev = AllOn("cpu")
    /\ model_dtype \in {"float32", "float16", "bfloat16"}
    /\ vae_dtype_cur = model_dtype
    /\ rng_seed = -1
    /\ host_loaded \in BOOLEAN
    /\ node = "none"
    /\ pc = "idle"
    /\ inp = NoInput
    /\ run = NoRun
    /\ last_end = "none"

\* The loader node before its first call.
InitLoader ==
    /\ ld_model = NoModel
    /\ ld_current_config = NoConfig
    /\ ld_result = NoResult
    /\ installed \in InstalledSets(MaxCkpts)
    /\ dev = AllOn("cpu")
    /\ model_dtype = "float32"
    /\ vae_dtype_cur = "float32"
    /\ rng_seed = -1
    /\ host_loaded = FALSE
    /\ node = "none"
    /\ pc = "idle"
    /\ inp = NoInput
    /\ run = NoRun
    /\ last_end = "none"

NextLoader == LoadModelFresh \/ LoadModelNoConfig \/ LoadModelCached

I2VSteps == I2VEncode \/ I2VEmbed \/ I2VSample \/ I2VDecode
BatchSteps == BatchEncode \/ BatchEmbed \/ BatchSample \/ BatchDecode

Next == I2VStart(SizeInputs) \/ BatchStart(SizeInputs) \/ I2VSteps \/ BatchSteps \/ Return

NextBatch ==
    BatchAssertFails(SeqInputs) \/ BatchStart(SeqInputs) \/ BatchSteps \/ HostLoads
        \/ Return

NextPrompt == BatchStart(PromptInputs) \/ BatchSteps \/ Return

NextDevices ==
    \/ I2VStart(DeviceInputs) \/ I2VSteps
    \/ BatchAssertFails(DeviceInputs) \/ BatchStart(DeviceInputs) \/ BatchSteps
    \/ HostLoads \/ ReturnTracked

\* Calls of the loader node.
SpecLoader == InitLoader /\ [][NextLoader]_vars
\* Calls of both process nodes over the image sizes.
Spec == InitModel /\ [][Next]_vars
\* Calls of the batch node over the sequence parameters.
SpecBatch == InitModel /\ [][NextBatch]_vars
\* Calls of the batch node over the prompts.
SpecPrompt == InitModel /\ [][NextPrompt]_vars
\* Repeated calls of both process nodes on one model.
SpecDevices == InitModel /\ [][NextDevices]_vars

(***************************************************************************)
(* The claims                                                              *)
(***************************************************************************)
\* The config the claim names for a checkpoint name: decided on the file
\* name without directory and extension.
ClaimedConfig(ckpt_name) ==
    LET b == BaseName(ckpt_name)
        has(t) == t \in {b[q] : q \in 1..Len(b)}
    IN  CASE has("interp") /\ has("512") -> "dynamicrafter_512_interp_v1.yaml"
          [] ~(has("interp") /\ has("512")) /\ has("1024") -> "dynamicrafter_1024_v1.yaml"
          [] ~has("interp") /\ ~has("1024") /\ has("512") -> "dynamicrafter_512_v1.yaml"
          [] ~has("1024") /\ ~has("512") /\ has("256") -> "dynamicrafter_256_v1.yaml"
          [] OTHER -> "none"

\* C1: a model loadmodel returns for a checkpoint name was instantiated from
\* the config that matches the base name of that name, and no model is
\* returned for a name whose base name matches no config.
C1_ConfigMatchesBaseName ==
    ld_result.kind = "returned" =>
        /\ ClaimedConfig(ld_result.ckpt_name) # "none"
        /\ ld_result.model.config = ClaimedConfig(ld_result.ckpt_name)

\* The latent of input src at the working size of the running call.
WorkingLatent(src) ==
    [of |-> src, h |-> run.H \div LatentFactor, w |-> run.W \div LatentFactor]

\* C2: when the sampler of DynamiCrafterI2V runs, the concat conditioning
\* holds, with image2 supplied, the latent of image in its first frame, the
\* latent of image2 in its last frame and zeros between, and without image2
\* the latent of image in every frame.  (Stated for two frames and more,
\* where the first frame is not the last.)
C2_ConcatConditioning ==
    (node = "i2v" /\ pc = "sample" /\ inp.frames >= 2) =>
        /\ Len(run.concat) = inp.frames
        /\ IF inp.image2 # NoImage
           THEN /\ run.concat[1] = WorkingLatent(0)
                /\ run.concat[inp.frames] = WorkingLatent(1)
                /\ \A t \in 2..(inp.frames - 1) : run.concat[t].of = -1
           ELSE \A t \in 1..inp.frames : run.concat[t] = WorkingLatent(0)

\* What the batch node returns with nothing cut: the frames of segment 0,
\* then those of segment 1, and so on.
SegmentsInOrder(video, n_segments, frames) ==
    /\ Len(video) = n_segments * frames
    /\ \A j \in 1..Len(video) : video[j] = <<(j - 1) \div frames, (j - 1) % frames>>

\* The segments sampled so far are 0, 1, ... in this order.
SegmentOrder ==
    /\ \A k \in 1..Len(run.segs) : run.segs[k].i = k - 1
    /\ Len(run.segs) <= inp.n_images - 1

\* C3 as stated: the batch node runs the N-1 segments in order, segment i
\* with the latent of images[i] in the first and that of images[i+1] in the
\* last frame of its conditioning, and with nothing cut it returns the
\* segments in order, (N-1)*frames frames.
C3_SegmentsAsStated ==
    (node = "batch" /\ pc \in {"sample", "decode", "done"}) =>
        /\ SegmentOrder
        /\ \A k \in 1..Len(run.segs) :
             /\ run.segs[k].concat[1] = WorkingLatent(k - 1)
             /\ run.segs[k].concat[inp.frames] = WorkingLatent(k)
        /\ pc = "done" => Len(run.segs) = inp.n_images - 1
        /\ (pc = "done" /\ inp.cut_near_keyframes = 0) =>
              SegmentsInOrder(run.video, inp.n_images - 1, inp.frames)

\* C3 as amended: the same, the first frame holding the latent of images[i]
\* when frames >= 2; with frames = 1 the one frame holds that of images[i+1].
C3_Segments ==
    (node = "batch" /\ pc \in {"sample", "decode", "done"}) =>
        /\ SegmentOrder
        /\ \A k \in 1..Len(run.segs) :
             /\ Len(run.segs[k].concat) = inp.frames
             /\ inp.frames >= 2 => run.segs[k].concat[1] = WorkingLatent(k - 1)
             /\ run.segs[k].concat[inp.frames] = WorkingLatent(k)
             /\ \A t \in 2..(inp.frames - 1) : run.segs[k].concat[t].of = -1
        /\ pc = "done" => Len(run.segs) = inp.n_images - 1
        /\ (pc = "done" /\ inp.cut_near_keyframes = 0) =>
              SegmentsInOrder(run.video, inp.n_images - 1, inp.frames)

C3_Witness ==
    /\ node = "batch"
    /\ pc = "done"
    /\ inp.n_images = 3
    /\ inp.frames = 3
    /\ inp.cut_near_keyframes = 0
    /\ Len(run.video) = 6
    /\ run.segs[2].concat[1].of = 1
    /\ run.segs[2].concat[3].of = 2

\* The index a frame has in the video before the trimming.
UntrimmedIndex(frame) == frame[1] * inp.frames + frame[2]

\* The indices the claim says are cut around the inner keyframes.
ClaimedCut ==
    LET c == inp.cut_near_keyframes
    IN  UNION {{k * inp.frames - (c \div 2) + d : d \in 0..(c - 1)} :
               k \in 1..(inp.n_images - 2)}

\* The video is the untrimmed video without the frames the claim says are cut.
CutAsClaimed ==
    LET total == (inp.n_images - 1) * inp.frames
        c == inp.cut_near_keyframes
        kept == {UntrimmedIndex(run.video[j]) : j \in 1..Len(run.video)}
    IN  /\ kept = (0..(total - 1)) \ ClaimedCut
        /\ \A j \in 1..(Len(run.video) - 1) :
             UntrimmedIndex(run.video[j]) < UntrimmedIndex(run.video[j + 1])
        /\ Len(run.video) = total - (inp.n_images - 2) * c

CutFits ==
    LET c == inp.cut_near_keyframes
    IN  \/ inp.n_images = 2
        \/ inp.n_images = 3 /\ inp.frames >= c - (c \div 2)
        \/ inp.frames >= c

C5_AssertBeforeEffects ==
    /\ [](node = "batch" /\ inp.n_images < 2 =>
            pc = "failed" /\ run.error = "needs at least 2 images")
    /\ [][(pc = "idle" /\ pc' = "failed" /\ run'.error = "needs at least 2 images") =>
            /\ inp'.n_images < 2
            /\ host_loaded' = host_loaded
            /\ rng_seed' = rng_seed
            /\ dev' = dev
            /\ model_dtype' = model_dtype
            /\ vae_dtype_cur' = vae_dtype_cur]_vars

C5_Witness ==
    /\ node = "batch"
    /\ pc = "failed"
    /\ run.error = "needs at least 2 images"
    /\ inp.n_images = 1
    /\ host_loaded
    /\ dev.unet = ComputeDevice
    /\ rng_seed # inp.seed
    /\ inp.vae_dtype = "fp16"
    /\ vae_dtype_cur = "bfloat16"

\* C6: the frames either node returns are (orig_H // 2) * 2 high and
\* (orig_W // 2) * 2 wide: even, and at most 1 less than the input.
C6_FinalSize ==
    pc = "done" =>
        /\ run.vidH = (run.orig_H \div 2) * 2
        /\ run.vidW = (run.orig_W \div 2) * 2
        /\ run.vidH % 2 = 0 /\ run.vidW % 2 = 0
        /\ run.orig_H - run.vidH \in {0, 1}
        /\ run.orig_W - run.vidW \in {0, 1}

C6_Witness ==
    /\ pc = "done"
    /\ node = "batch"
    /\ run.orig_H = 129
    /\ run.orig_W = 66
    /\ run.H = 128
    /\ run.vidH = 128
    /\ run.vidW = 66

\* x is the largest multiple of 64 that does not exceed y.
LargestMultiple(x, y) ==
    /\ x % SizeMultiple = 0
    /\ x <= y
    /\ \A m \in (x + 1)..y : m % SizeMultiple # 0

\* C7: wherever a node encodes, embeds, samples or decodes, the working
\* size is in each dimension the largest multiple of 64 not above the input
\* and at least 64, the images were resized exactly if a dimension of the
\* input is no multiple of 64, and the noise is working size // 8.
C7_WorkingSize ==
    pc \in {"encode", "embed", "sample", "decode", "done"} =>
        /\ LargestMultiple(run.H, run.orig_H) /\ run.H >= SizeMultiple
        /\ LargestMultiple(run.W, run.orig_W) /\ run.W >= SizeMultiple
        /\ run.resized <=> (run.orig_H % SizeMultiple # 0 \/ run.orig_W % SizeMultiple # 0)
        /\ ~run.resized => (run.H = run.orig_H /\ run.W = run.orig_W)
        /\ \A k \in 1..Len(run.images) : run.images[k].h = run.H /\ run.images[k].w = run.W
        /\ run.noise_shape.h = run.H \div 8
        /\ run.noise_shape.w = run.W \div 8

C7_Witness ==
    /\ pc = "sample"
    /\ node = "i2v"
    /\ run.orig_H = 127
    /\ run.orig_W = 129
    /\ run.H = 64
    /\ run.W = 128
    /\ run.resized
    /\ run.noise_shape.h = 8
    /\ run.noise_shape.w = 16

\* The place of the k-th '|' of s; 0 for k = 0, past the end when s has
\* fewer.
BarPlace(s, k) ==
    IF k = 0 THEN 0
    ELSE LET at == {p \in 1..Len(s) : s[p] = "|"
                       /\ Cardinality({q \in 1..p : s[q] = "|"}) = k}
         IN  IF at = {} THEN Len(s) + 1 ELSE CHOOSE p \in at : TRUE

\* What stands between the k-th and the next '|' of s, without the white
\* space around it.
TrimmedField(s, k) ==
    LET field == SubSeq(s, BarPlace(s, k) + 1, BarPlace(s, k + 1) - 1)
        ink == {p \in 1..Len(field) : field[p] # " "}
    IN  IF ink = {} THEN <<>> ELSE SubSeq(field, Min(ink), Max(ink))

BarCount(s) == Cardinality({p \in 1..Len(s) : s[p] = "|"})

C9_Devices ==
    /\ pc \in {"encode", "decode"} => dev.first_stage = ComputeDevice
    /\ pc = "embed" =>
          /\ dev.cond_stage = ComputeDevice
          /\ dev.embedder = ComputeDevice
          /\ dev.image_proj = ComputeDevice
    /\ pc = "sample" =>
          /\ dev.first_stage = "cpu"
          /\ dev.cond_stage = "cpu"
          /\ dev.embedder = "cpu"
          /\ dev.image_proj = "cpu"
          /\ dev.unet = ComputeDevice

C9_Witness ==
    /\ last_end = "released"
    /\ node = "batch"
    /\ pc = "sample"
    /\ run.i = 1
    /\ dev.unet = ComputeDevice
    /\ dev.first_stage = "cpu"

====
